---- MODULE Spec2Model ----
(***************************************************************************)
(* Model of the Passport configuration of the portfolio server             *)
(* (server/lib/PassportSetup.js): the three strategy verify callbacks      *)
(* (local, google, github) and the session (de)serialisers, running as     *)
(* concurrent requests against one User collection.  Every `await` of a    *)
(* callback is a point where another request may run, so a callback is a   *)
(* sequence of steps, one per store access.                                *)
(***************************************************************************)
EXTENDS Integers, Sequences, FiniteSets, TLC

(* ---------------- bounds and input sets ---------------- *)

\* Largest number of documents the User collection holds in the model.
MaxUsers == 2

\* Requests that may be in flight at the same time.
Procs == {1, 2}

Emails == {"a@x.com", "b@x.com"}
Passwords == {"pw1", "pw2"}
ProviderIds == {"101", "102"}
Names == {"Bob"}

\* JavaScript values that are not user documents or strings of the inputs.
Undefined == "undefined"
Null == [tag |-> "null"]
False == [tag |-> "false"]
NoError == "null"
StoreError == "StoreError"

\* What a provider profile may carry as its e-mail address.
ProfileEmails == {"a@x.com", Undefined}

\* server/lib/PassportSetup.js:133, the fallback of the GitHub callback.
PlaceholderEmail == "unknown@example.com"

(* ---------------- the User collection ---------------- *)

\* A document of the User collection, with the fields the callbacks write.
UserDoc(oid, name, email, password, googleId, githubId) ==
    [_id |-> oid, name |-> name, email |-> email, password |-> password,
     googleId |-> googleId, githubId |-> githubId]

\* The one-way transformation applied to a password before it is stored.
Hash(password) == <<"hash", password>>

\* user.verifyPassword(password): compare against the stored credential.
VerifyPassword(user, password) == user.password = Hash(password)

\* User.prototype.generateRandomPassword(): a value no caller submits.
RandomPasswords == {"rnd"}

\* Positions of the documents of coll whose field has the given value.
Matching(coll, field, value) ==
    {i \in 1..Len(coll) : coll[i][field] = value}

Min(S) == CHOOSE i \in S : \A j \in S : i <= j

\* User.findOne({field: value}): the first matching document, or null.
FindOne(coll, field, value) ==
    IF Matching(coll, field, value) = {} THEN Null
    ELSE coll[Min(Matching(coll, field, value))]

\* The ObjectId the store gives the next inserted document.
NextObjectId(coll) == Len(coll) + 1

\* The `id` virtual of a document is the hexadecimal string of its _id.
HexDigits == <<"0", "1", "2", "3", "4", "5", "6", "7",
               "8", "9", "a", "b", "c", "d", "e", "f">>

ToHexString(oid) == <<HexDigits[(oid \div 16) + 1], HexDigits[(oid % 16) + 1]>>

DigitValue(c) == (CHOOSE k \in 1..16 : HexDigits[k] = c) - 1

\* findById casts the string it is given back to an ObjectId.
CastObjectId(str) == DigitValue(str[1]) * 16 + DigitValue(str[2])

\* User.findById(id)
FindById(coll, id) == FindOne(coll, "_id", CastObjectId(id))

\* The session identities a request may present: those of the documents the
\* collection can hold, and one that never names a document.
SessionIds == {ToHexString(n) : n \in 1..(MaxUsers + 1)}

\* `a || b` on the values a profile e-mail can take.
OrElse(a, b) == IF a \in {Undefined, "null", ""} THEN b ELSE a

(* ---------------- the arguments of done ---------------- *)

DoneUser(err, user) == [err |-> err, user |-> user, info |-> Undefined]
DoneInfo(err, user, message) == [err |-> err, user |-> user, info |-> message]
DoneErr(err) == [err |-> err, user |-> Null, info |-> Undefined]
DoneId(err, id) == [err |-> err, id |-> id]

NoReq == [op |-> "none"]

(* ---------------- state ---------------- *)

VARIABLES
    users,   \* the User collection, in insertion order
    pc,      \* per request: "idle", "verify", "create" or "done"
    req,     \* per request: the strategy and the arguments it was called with
    user,    \* per request: the callback's local variable `user`
    out,     \* per request: the calls of `done` so far, in order
    fault    \* per request: a store access of this call has thrown

vars == <<users, pc, req, user, out, fault>>

Init ==
    /\ users = <<>>
    /\ pc = [p \in Procs |-> "idle"]
    /\ req = [p \in Procs |-> NoReq]
    /\ user = [p \in Procs |-> Null]
    /\ out = [p \in Procs |-> <<>>]
    /\ fault = [p \in Procs |-> FALSE]

\* The call of request p ends with done(d).
Finish(p, d) ==
    /\ pc' = [pc EXCEPT ![p] = "done"]
    /\ out' = [out EXCEPT ![p] = Append(out[p], d)]

\* A store access of request p throws; the catch block calls done(d).
Throw(p, d) ==
    /\ Finish(p, d)
    /\ fault' = [fault EXCEPT ![p] = TRUE]
    /\ UNCHANGED <<users, user>>

(* ---------------- registration ---------------- *)

\* A local account is registered with an e-mail no document has yet.
Register(email, password, name) ==
    /\ Len(users) < MaxUsers
    /\ FindOne(users, "email", email) = Null
    /\ users' = Append(users, UserDoc(NextObjectId(users), name, email,
                                      Hash(password), Undefined, Undefined))
    /\ UNCHANGED <<pc, req, user, out, fault>>

(* ---------------- local strategy ---------------- *)

\* LocalFindOne with a catch block that reports a refusal instead of the
\* error; C5 tells it from LocalFindOne.
LocalFindOne_Swallow(p, email, password) ==
    /\ pc[p] = "idle"
    /\ req' = [req EXCEPT ![p] = [op |-> "local", email |-> email,
                                  password |-> password]]
    /\ \/ Throw(p, DoneInfo(NoError, False, "Incorrect email."))
       \/ /\ FindOne(users, "email", email) = Null
          /\ Finish(p, DoneInfo(NoError, False, "Incorrect email."))
          /\ UNCHANGED <<users, user, fault>>
       \/ /\ FindOne(users, "email", email) # Null
          /\ user' = [user EXCEPT ![p] = FindOne(users, "email", email)]
          /\ pc' = [pc EXCEPT ![p] = "verify"]
          /\ UNCHANGED <<users, out, fault>>

\* async (email, password, done): up to the resolution of User.findOne.
LocalFindOne(p, email, password) ==
    /\ pc[p] = "idle"
    /\ req' = [req EXCEPT ![p] = [op |-> "local", email |-> email,
                                  password |-> password]]
    /\ \/ Throw(p, DoneErr(StoreError))
       \/ /\ FindOne(users, "email", email) = Null
          /\ Finish(p, DoneInfo(NoError, False, "Incorrect email."))
          /\ UNCHANGED <<users, user, fault>>
       \/ /\ FindOne(users, "email", email) # Null
          /\ user' = [user EXCEPT ![p] = FindOne(users, "email", email)]
          /\ pc' = [pc EXCEPT ![p] = "verify"]
          /\ UNCHANGED <<users, out, fault>>

\* LocalVerifyPassword with the test of isMatch inverted; C1 tells it from
\* LocalVerifyPassword.
LocalVerifyPassword_Inverted(p) ==
    /\ pc[p] = "verify"
    /\ req[p].op = "local"
    /\ UNCHANGED req
    /\ \/ Throw(p, DoneErr(StoreError))
       \/ /\ VerifyPassword(user[p], req[p].password)
          /\ Finish(p, DoneInfo(NoError, False, "Incorrect password."))
          /\ UNCHANGED <<users, user, fault>>
       \/ /\ ~VerifyPassword(user[p], req[p].password)
          /\ Finish(p, DoneUser(NoError, user[p]))
          /\ UNCHANGED <<users, user, fault>>

\* The rest of the local callback: from the resolution of verifyPassword.
LocalVerifyPassword(p) ==
    /\ pc[p] = "verify"
    /\ req[p].op = "local"
    /\ UNCHANGED req
    /\ \/ Throw(p, DoneErr(StoreError))
       \/ /\ ~VerifyPassword(user[p], req[p].password)
          /\ Finish(p, DoneInfo(NoError, False, "Incorrect password."))
          /\ UNCHANGED <<users, user, fault>>
       \/ /\ VerifyPassword(user[p], req[p].password)
          /\ Finish(p, DoneUser(NoError, user[p]))
          /\ UNCHANGED <<users, user, fault>>

(* ---------------- google strategy ---------------- *)

\* GoogleFindOne that goes on to User.create whether or not a document was
\* found; C2 tells it from GoogleFindOne.
GoogleFindOne_AlwaysCreate(p, id, name, email) ==
    /\ pc[p] = "idle"
    /\ req' = [req EXCEPT ![p] = [op |-> "google", id |-> id, name |-> name,
                                  email |-> email]]
    /\ \/ Throw(p, DoneInfo(StoreError, False, Undefined))
       \/ /\ pc' = [pc EXCEPT ![p] = "create"]
          /\ UNCHANGED <<users, user, out, fault>>

\* async (accessToken, refreshToken, profile, done): up to User.findOne.
GoogleFindOne(p, id, name, email) ==
    /\ pc[p] = "idle"
    /\ req' = [req EXCEPT ![p] = [op |-> "google", id |-> id, name |-> name,
                                  email |-> email]]
    /\ \/ Throw(p, DoneInfo(StoreError, False, Undefined))
       \/ /\ FindOne(users, "googleId", id) # Null
          /\ user' = [user EXCEPT ![p] = FindOne(users, "googleId", id)]
          /\ Finish(p, DoneUser(NoError, FindOne(users, "googleId", id)))
          /\ UNCHANGED <<users, fault>>
       \/ /\ FindOne(users, "googleId", id) = Null
          /\ pc' = [pc EXCEPT ![p] = "create"]
          /\ UNCHANGED <<users, user, out, fault>>

\* GoogleCreate as an atomic find-or-create: it ends with the document that
\* carries the id by now, if there is one; C8 tells it from GoogleCreate.
GoogleCreate_Upsert(p) ==
    /\ pc[p] = "create"
    /\ req[p].op = "google"
    /\ UNCHANGED req
    /\ \/ Throw(p, DoneInfo(StoreError, False, Undefined))
       \/ /\ FindOne(users, "googleId", req[p].id) # Null
          /\ user' = [user EXCEPT ![p] = FindOne(users, "googleId", req[p].id)]
          /\ Finish(p, DoneUser(NoError,
                                FindOne(users, "googleId", req[p].id)))
          /\ UNCHANGED <<users, fault>>
       \/ /\ FindOne(users, "googleId", req[p].id) = Null
          /\ Len(users) < MaxUsers
          /\ \E randomPassword \in RandomPasswords :
               /\ users' = Append(users,
                      UserDoc(NextObjectId(users), req[p].name, req[p].email,
                              Hash(randomPassword), req[p].id, Undefined))
               /\ user' = [user EXCEPT ![p] = users'[Len(users')]]
               /\ Finish(p, DoneUser(NoError, users'[Len(users')]))
               /\ UNCHANGED fault

\* The rest of the google callback: from the resolution of User.create.
GoogleCreate(p) ==
    /\ pc[p] = "create"
    /\ req[p].op = "google"
    /\ UNCHANGED req
    /\ \/ Throw(p, DoneInfo(StoreError, False, Undefined))
       \/ /\ Len(users) < MaxUsers
          /\ \E randomPassword \in RandomPasswords :
               /\ users' = Append(users,
                      UserDoc(NextObjectId(users), req[p].name, req[p].email,
                              Hash(randomPassword), req[p].id, Undefined))
               /\ user' = [user EXCEPT ![p] = users'[Len(users')]]
               /\ Finish(p, DoneUser(NoError, users'[Len(users')]))
               /\ UNCHANGED fault

(* ---------------- github strategy ---------------- *)

\* GithubFindOne that falls back to the document with the profile's e-mail
\* when no document carries the id; C9 tells it from GithubFindOne.
GithubFindOne_ByEmail(p, id, name, email) ==
    /\ pc[p] = "idle"
    /\ req' = [req EXCEPT ![p] = [op |-> "github", id |-> id, name |-> name,
                                  email |-> email]]
    /\ \/ Throw(p, DoneInfo(StoreError, False, Undefined))
       \/ /\ FindOne(users, "githubId", id) # Null
          /\ user' = [user EXCEPT ![p] = FindOne(users, "githubId", id)]
          /\ Finish(p, DoneUser(NoError, FindOne(users, "githubId", id)))
          /\ UNCHANGED <<users, fault>>
       \/ /\ FindOne(users, "githubId", id) = Null
          /\ FindOne(users, "email", email) # Null
          /\ user' = [user EXCEPT ![p] = FindOne(users, "email", email)]
          /\ Finish(p, DoneUser(NoError, FindOne(users, "email", email)))
          /\ UNCHANGED <<users, fault>>
       \/ /\ FindOne(users, "githubId", id) = Null
          /\ FindOne(users, "email", email) = Null
          /\ pc' = [pc EXCEPT ![p] = "create"]
          /\ UNCHANGED <<users, user, out, fault>>

\* GithubFindOne that refreshes the e-mail of the document it found from the
\* profile; C10 tells it from GithubFindOne.
GithubFindOne_Refresh(p, id, name, email) ==
    /\ pc[p] = "idle"
    /\ req' = [req EXCEPT ![p] = [op |-> "github", id |-> id, name |-> name,
                                  email |-> email]]
    /\ \/ Throw(p, DoneInfo(StoreError, False, Undefined))
       \/ /\ FindOne(users, "githubId", id) # Null
          /\ users' = [users EXCEPT
                          ![Min(Matching(users, "githubId", id))].email =
                              OrElse(email, PlaceholderEmail)]
          /\ user' = [user EXCEPT
                         ![p] = users'[Min(Matching(users, "githubId", id))]]
          /\ Finish(p, DoneUser(NoError,
                                users'[Min(Matching(users, "githubId", id))]))
          /\ UNCHANGED fault
       \/ /\ FindOne(users, "githubId", id) = Null
          /\ pc' = [pc EXCEPT ![p] = "create"]
          /\ UNCHANGED <<users, user, out, fault>>

\* async (accessToken, refreshToken, profile, done): up to User.findOne.
GithubFindOne(p, id, name, email) ==
    /\ pc[p] = "idle"
    /\ req' = [req EXCEPT ![p] = [op |-> "github", id |-> id, name |-> name,
                                  email |-> email]]
    /\ \/ Throw(p, DoneInfo(StoreError, False, Undefined))
       \/ /\ FindOne(users, "githubId", id) # Null
          /\ user' = [user EXCEPT ![p] = FindOne(users, "githubId", id)]
          /\ Finish(p, DoneUser(NoError, FindOne(users, "githubId", id)))
          /\ UNCHANGED <<users, fault>>
       \/ /\ FindOne(users, "githubId", id) = Null
          /\ pc' = [pc EXCEPT ![p] = "create"]
          /\ UNCHANGED <<users, user, out, fault>>

\* GithubCreate that stores the profile id in the googleId field; C3 tells
\* it from GithubCreate.
GithubCreate_WrongField(p) ==
    /\ pc[p] = "create"
    /\ req[p].op = "github"
    /\ UNCHANGED req
    /\ \/ Throw(p, DoneInfo(StoreError, False, Undefined))
       \/ /\ Len(users) < MaxUsers
          /\ \E randomPassword \in RandomPasswords :
               /\ users' = Append(users,
                      UserDoc(NextObjectId(users), req[p].name,
                              OrElse(req[p].email, PlaceholderEmail),
                              Hash(randomPassword), req[p].id, Undefined))
               /\ user' = [user EXCEPT ![p] = users'[Len(users')]]
               /\ Finish(p, DoneUser(NoError, users'[Len(users')]))
               /\ UNCHANGED fault

\* The rest of the github callback: from the resolution of User.create.
GithubCreate(p) ==
    /\ pc[p] = "create"
    /\ req[p].op = "github"
    /\ UNCHANGED req
    /\ \/ Throw(p, DoneInfo(StoreError, False, Undefined))
       \/ /\ Len(users) < MaxUsers
          /\ \E randomPassword \in RandomPasswords :
               /\ users' = Append(users,
                      UserDoc(NextObjectId(users), req[p].name,
                              OrElse(req[p].email, PlaceholderEmail),
                              Hash(randomPassword), Undefined, req[p].id))
               /\ user' = [user EXCEPT ![p] = users'[Len(users')]]
               /\ Finish(p, DoneUser(NoError, users'[Len(users')]))
               /\ UNCHANGED fault

(* ---------------- session identity ---------------- *)

\* passport.serializeUser((user, done) => done(null, user.id))
SerializeUser(p, u) ==
    /\ pc[p] = "idle"
    /\ req' = [req EXCEPT ![p] = [op |-> "serialize", user |-> u]]
    /\ Finish(p, DoneId(NoError, ToHexString(u._id)))
    /\ UNCHANGED <<users, user, fault>>

\* deserializeUser whose query loses its filter and finds the first
\* document; C7 tells it from DeserializeUser.
DeserializeUser_FirstDoc(p, id) ==
    /\ pc[p] = "idle"
    /\ req' = [req EXCEPT ![p] = [op |-> "deserialize", id |-> id]]
    /\ \/ Throw(p, DoneErr(StoreError))
       \/ /\ user' = [user EXCEPT
                         ![p] = IF users = <<>> THEN Null ELSE users[1]]
          /\ Finish(p, DoneUser(NoError,
                                IF users = <<>> THEN Null ELSE users[1]))
          /\ UNCHANGED <<users, fault>>

\* passport.deserializeUser(async (id, done) => ...)
DeserializeUser(p, id) ==
    /\ pc[p] = "idle"
    /\ req' = [req EXCEPT ![p] = [op |-> "deserialize", id |-> id]]
    /\ \/ Throw(p, DoneErr(StoreError))
       \/ /\ user' = [user EXCEPT ![p] = FindById(users, id)]
          /\ Finish(p, DoneUser(NoError, FindById(users, id)))
          /\ UNCHANGED <<users, fault>>

\* Passport has consumed the outcome; the request slot is free again.
Return(p) ==
    /\ pc[p] = "done"
    /\ pc' = [pc EXCEPT ![p] = "idle"]
    /\ req' = [req EXCEPT ![p] = NoReq]
    /\ user' = [user EXCEPT ![p] = Null]
    /\ out' = [out EXCEPT ![p] = <<>>]
    /\ fault' = [fault EXCEPT ![p] = FALSE]
    /\ UNCHANGED users

Next ==
    \/ \E e \in Emails, w \in Passwords, n \in Names : Register(e, w, n)
    \/ \E p \in Procs, e \in Emails, w \in Passwords : LocalFindOne(p, e, w)
    \/ \E p \in Procs : LocalVerifyPassword(p)
    \/ \E p \in Procs, i \in ProviderIds, n \in Names, e \in ProfileEmails :
          GoogleFindOne(p, i, n, e)
    \/ \E p \in Procs : GoogleCreate(p)
    \/ \E p \in Procs, i \in ProviderIds, n \in Names, e \in ProfileEmails :
          GithubFindOne(p, i, n, e)
    \/ \E p \in Procs : GithubCreate(p)
    \/ \E p \in Procs, i \in 1..Len(users) : SerializeUser(p, users[i])
    \/ \E p \in Procs, id \in SessionIds : DeserializeUser(p, id)
    \/ \E p \in Procs : Return(p)

Spec == Init /\ [][Next]_vars

(* ---------------- vocabulary of the properties ---------------- *)

\* d is a document of the collection coll.
IsDocOf(coll, d) == \E i \in 1..Len(coll) : coll[i] = d

\* The field a federated strategy looks its profile id up in.
ProviderField(op) == IF op = "google" THEN "googleId" ELSE "githubId"

Federated == {"google", "github"}

\* This step is the first step of a call of request p.
Starts(p) == pc[p] = "idle" /\ pc'[p] # "idle"

\* This step is the step after the pending `await` of request p.
Resumes(p, at) == pc[p] = at /\ pc'[p] = "done"

\* Every document of coll is the document of coll2 at the same position.
Extends(coll, coll2) ==
    /\ Len(coll) <= Len(coll2)
    /\ \A i \in 1..Len(coll) : coll2[i] = coll[i]

(* ---------------- C1 ---------------- *)

\* C1: when no store access throws, a call of the local strategy ends in
\* exactly one of three ways, decided by the collection: with "Incorrect
\* email." (UserNotFound), without consulting the verifier, when no document
\* has the submitted e-mail; with "Incorrect password." (InvalidCredentials)
\* when the document found for the e-mail fails verifyPassword; and with that
\* document, which carries the submitted e-mail, when verifyPassword accepts.
C1_LocalOutcomes ==
    [][\A p \in Procs :
        /\ (Starts(p) /\ req'[p].op = "local" /\ ~fault'[p]) =>
              IF Matching(users, "email", req'[p].email) = {}
              THEN /\ pc'[p] = "done"
                   /\ out'[p] = <<DoneInfo(NoError, False, "Incorrect email.")>>
              ELSE /\ pc'[p] = "verify"
                   /\ out'[p] = <<>>
                   /\ IsDocOf(users, user'[p])
                   /\ user'[p].email = req'[p].email
        /\ (Resumes(p, "verify") /\ ~fault'[p]) =>
              IF user[p].password = Hash(req[p].password)
              THEN out'[p] = <<DoneUser(NoError, user[p])>>
              ELSE out'[p] = <<DoneInfo(NoError, False, "Incorrect password.")>>
      ]_vars

\* One request has logged in with the right password while another was
\* refused for a wrong one.
C1_Witness ==
    \E p, q \in Procs :
        /\ pc[p] = "done" /\ req[p].op = "local" /\ ~fault[p]
        /\ out[p][1].err = NoError
        /\ IsDocOf(users, out[p][1].user)
        /\ out[p][1].user.email = req[p].email
        /\ pc[q] = "done" /\ req[q].op = "local"
        /\ out[q][1].info = "Incorrect password."

(* ---------------- C2 ---------------- *)

\* C2: a federated login whose provider id some document already carries
\* ends at once with the first such document, inserts nothing and changes
\* nothing, whatever name and e-mail its profile carries; and the document
\* found for a provider id stays the same one over every step of the system,
\* so repeated logins return the same internal identifier.
C2_FederatedIdempotent ==
    [][/\ \A p \in Procs :
            (/\ Starts(p) /\ req'[p].op \in Federated /\ ~fault'[p]
             /\ FindOne(users, ProviderField(req'[p].op), req'[p].id) # Null)
            => /\ pc'[p] = "done"
               /\ users' = users
               /\ out'[p] = <<DoneUser(NoError,
                     FindOne(users, ProviderField(req'[p].op), req'[p].id))>>
       /\ \/ users' = users
          \/ \A op \in Federated, id \in ProviderIds :
               FindOne(users, ProviderField(op), id) # Null =>
                 FindOne(users', ProviderField(op), id)
                   = FindOne(users, ProviderField(op), id)
      ]_vars

\* A repeated GitHub login whose profile now carries an e-mail has returned
\* the document created earlier with the placeholder e-mail.
C2_Witness ==
    \E p \in Procs :
        /\ pc[p] = "done" /\ req[p].op = "github" /\ ~fault[p]
        /\ req[p].email # Undefined
        /\ out[p][1].user = FindOne(users, "githubId", req[p].id)
        /\ out[p][1].user.email = PlaceholderEmail

(* ---------------- C3 ---------------- *)

\* C3: a federated login whose provider id no document carries goes on to
\* User.create whatever the collection holds, and the create, when the store
\* performs it, appends exactly one document, whose id for that provider is
\* the profile id, and the call ends with that document.
C3_FederatedCreatesOne ==
    [][\A p \in Procs :
        /\ (/\ Starts(p) /\ req'[p].op \in Federated /\ ~fault'[p]
            /\ FindOne(users, ProviderField(req'[p].op), req'[p].id) = Null)
           => /\ pc'[p] = "create"
              /\ out'[p] = <<>>
        /\ (Resumes(p, "create") /\ ~fault'[p]) =>
              /\ Len(users') = Len(users) + 1
              /\ Extends(users, users')
              /\ users'[Len(users')][ProviderField(req[p].op)] = req[p].id
              /\ out'[p] = <<DoneUser(NoError, users'[Len(users')])>>
      ]_vars

\* A second GitHub identity has been given a document of its own while the
\* collection already held a document with the placeholder e-mail.
C3_Witness ==
    \E p \in Procs :
        /\ pc[p] = "done" /\ req[p].op = "github" /\ ~fault[p]
        /\ Len(users) = 2
        /\ users[1].email = PlaceholderEmail
        /\ users[1].githubId # req[p].id
        /\ users[2].githubId = req[p].id
        /\ out[p][1].user = users[2]

(* ---------------- C4 ---------------- *)

\* C4: every document has a password credential or a provider id, and no
\* two documents that have an e-mail have the same e-mail.
C4_RecordInvariant ==
    /\ \A i \in 1..Len(users) :
          \/ users[i].password # Undefined
          \/ users[i].googleId # Undefined
          \/ users[i].githubId # Undefined
    /\ \A i, j \in 1..Len(users) :
          (i # j /\ users[i].email # Undefined) =>
             users[i].email # users[j].email

(* ---------------- C5 ---------------- *)

\* C5: a call one of whose store accesses (or whose verifier) has thrown is
\* over, has called done exactly once, with the error, and has reported
\* neither a user nor an "Incorrect ..." refusal; no call calls done twice.
C5_StoreErrorSurfaced ==
    \A p \in Procs :
        /\ Len(out[p]) <= 1
        /\ (pc[p] = "done") = (Len(out[p]) = 1)
        /\ fault[p] =>
              /\ pc[p] = "done"
              /\ out[p][1].err = StoreError
              /\ out[p][1].user \in {Null, False}
              /\ out[p][1].info = Undefined

\* The create of a GitHub login has failed while another request was being
\* served.
C5_Witness ==
    \E p \in Procs :
        /\ fault[p]
        /\ req[p].op = "github"
        /\ FindOne(users, "githubId", req[p].id) = Null
        /\ out[p] = <<DoneInfo(StoreError, False, Undefined)>>

(* ---------------- C6 ---------------- *)

\* C6: a deserializeUser call for an id that no document has does not end
\* without an error (documents are never removed, so the id had no document
\* when the call looked it up either).
C6_DeserializeAbsentFails ==
    \A p \in Procs :
        (/\ pc[p] = "done" /\ req[p].op = "deserialize"
         /\ FindById(users, req[p].id) = Null)
        => out[p][1].err # NoError

(* ---------------- C7 ---------------- *)

\* C7: the document a deserializeUser call ends with serialises to the id
\* the call was given; every document of the collection is the one found by
\* the id it serialises to; and the id a serializeUser call ends with is
\* found to be the document it was given.
C7_SessionRoundTrip ==
    /\ \A p \in Procs :
          (/\ pc[p] = "done" /\ req[p].op = "deserialize"
           /\ out[p][1].err = NoError /\ out[p][1].user # Null)
          => /\ ToHexString(out[p][1].user._id) = req[p].id
             /\ IsDocOf(users, out[p][1].user)
    /\ \A i \in 1..Len(users) :
          FindById(users, ToHexString(users[i]._id)) = users[i]
    /\ \A p \in Procs :
          (pc[p] = "done" /\ req[p].op = "serialize")
          => FindById(users, out[p][1].id) = req[p].user

\* One request has serialised the second document and another has resolved
\* that identity back to it.
C7_Witness ==
    \E p, q \in Procs :
        /\ pc[p] = "done" /\ req[p].op = "serialize"
        /\ Len(users) >= 2 /\ req[p].user = users[2]
        /\ pc[q] = "done" /\ req[q].op = "deserialize"
        /\ req[q].id = out[p][1].id
        /\ out[q][1].user = users[2]

(* ---------------- C8 ---------------- *)

\* C8: a federated create that is performed after another request has
\* inserted a document with the same provider id (both lookups came before
\* both creates) inserts a second document with that provider id, distinct
\* from the first.
C8_RaceDuplicates ==
    [][\A p \in Procs :
        (/\ Resumes(p, "create") /\ ~fault'[p]
         /\ FindOne(users, ProviderField(req[p].op), req[p].id) # Null)
        => /\ Cardinality(Matching(users', ProviderField(req[p].op),
                                    req[p].id)) >= 2
           /\ out'[p][1].user
                # FindOne(users', ProviderField(req[p].op), req[p].id)
           /\ out'[p][1].user._id
                # FindOne(users', ProviderField(req[p].op), req[p].id)._id
      ]_vars

\* Two requests for the same new Google identity have both ended with a
\* document of their own.
C8_Witness ==
    \E p, q \in Procs :
        /\ p # q
        /\ pc[p] = "done" /\ pc[q] = "done"
        /\ req[p].op = "google" /\ req[q].op = "google"
        /\ req[p].id = req[q].id
        /\ ~fault[p] /\ ~fault[q]
        /\ Len(users) = 2
        /\ out[p][1].user = users[1] /\ out[q][1].user = users[2]
        /\ users[1].googleId = req[p].id
        /\ users[2].googleId = req[p].id

(* ---------------- C9 ---------------- *)

\* C9: a federated login with a new provider id whose profile carries an
\* e-mail that existing documents have does not end with any of them: it goes on to
\* User.create, which leaves every existing document as it was and ends the
\* call with a new document whose internal id no existing document has.
C9_NoEmailDedup ==
    [][\A p \in Procs :
        /\ (/\ Starts(p) /\ req'[p].op \in Federated /\ ~fault'[p]
            /\ FindOne(users, ProviderField(req'[p].op), req'[p].id) = Null
            /\ req'[p].email # Undefined
            /\ Matching(users, "email", req'[p].email) # {})
           => /\ pc'[p] = "create"
              /\ users' = users
        /\ (/\ Resumes(p, "create") /\ ~fault'[p]
            /\ req[p].email # Undefined
            /\ Matching(users, "email", req[p].email) # {})
           => /\ \A i \in Matching(users, "email", req[p].email) :
                    /\ users'[i] = users[i]
                    /\ out'[p][1].user # users[i]
                    /\ out'[p][1].user._id # users[i]._id
              /\ out'[p][1].err = NoError
              /\ out'[p][1].user.email = req[p].email
              /\ Matching(users', "_id", out'[p][1].user._id) = {Len(users')}
      ]_vars

\* A Google login with the e-mail of a registered local account has been
\* given a second document, and the local account is as it was registered.
C9_Witness ==
    \E p \in Procs :
        /\ pc[p] = "done" /\ req[p].op = "google" /\ ~fault[p]
        /\ Len(users) = 2
        /\ users[1].googleId = Undefined /\ users[1].githubId = Undefined
        /\ users[1].email = req[p].email
        /\ users[2].email = req[p].email
        /\ users[2].googleId = req[p].id
        /\ users[2]._id # users[1]._id
        /\ out[p][1].user = users[2]

(* ---------------- C10 ---------------- *)

\* C10: no step removes or changes a document; a step of a local,
\* serializeUser or deserializeUser call leaves the collection as it is and a
\* step of a federated call appends at most one document; and the document a
\* successful authentication ended with is still the one its session
\* identity resolves to after every step.
C10_RecordsImmutable ==
    [][/\ Extends(users, users')
       /\ Len(users') <= Len(users) + 1
       /\ \A p \in Procs :
            (pc'[p] # pc[p] /\ req'[p].op \in {"local", "serialize",
                                               "deserialize"})
            => users' = users
       /\ \A p \in Procs :
            (/\ pc[p] = "done" /\ req[p].op \in Federated \cup {"local"}
             /\ out[p][1].err = NoError /\ out[p][1].user # False)
            => /\ FindById(users, ToHexString(out[p][1].user._id))
                    = out[p][1].user
               /\ FindById(users', ToHexString(out[p][1].user._id))
                    = out[p][1].user
      ]_vars

\* A local login has ended with the first document and a later federated
\* login has added a second one.
C10_Witness ==
    \E p, q \in Procs :
        /\ pc[p] = "done" /\ req[p].op = "local"
        /\ out[p][1].err = NoError /\ out[p][1].user # False
        /\ Len(users) = 2 /\ out[p][1].user = users[1]
        /\ pc[q] = "done" /\ req[q].op \in Federated
        /\ out[q][1].user = users[2]
====
